---- MODULE Spec2Model ----
(***************************************************************************)
(* Model of the asynchronous plan-generation pipeline of the HTE backend:  *)
(*   app/routers/planner.py      job registry, background job, SSE stream  *)
(*   app/services/plan_service.py  response parsing, merge and sort        *)
(*   app/services/llm_service.py   completion client                       *)
(*                                                                         *)
(* Scheduling is asyncio's: one event loop, a coroutine runs until it      *)
(* suspends.  An action of this module is the code between two suspension  *)
(* points.  The suspension points are: the start of a created task, the    *)
(* remote call of the completion client, asyncio.sleep(1), the wait on a   *)
(* subscriber's queue, and every yield of the stream generator.            *)
(* queue.put on a queue built by asyncio.Queue() (maxsize 0) does not      *)
(* suspend.                                                                *)
(***************************************************************************)
EXTENDS Integers, Sequences, FiniteSets, TLC

(* ------------------------------ bounds -------------------------------- *)
\* number of submissions (background jobs) in a run
MaxJobs == 2
\* number of stream connections in a run
MaxSubs == 2
\* keepalive signals one connection is given in a run
MaxKeepalive == 1
\* tokens of a generated response text
MaxTextLen == 4
\* content blocks of a generated reply
MaxBlocks == 3
\* tasks a submitted plan already holds
MaxOldTasks == 2

\* goal (= job) identifiers a client may use
Goals == {1, 2}
Jobs == 1..MaxJobs
Subs == 1..MaxSubs

(* --------------------------- data: schemas ---------------------------- *)
\* TaskContent's required fields
RequiredFields ==
  {"task_id", "start_at", "end_at", "title", "action_plan", "expected_outcome"}

\* task_id values that parse as a UUID; 0 stands for a token that does not
IsUUID(v) == v \in {1, 2, 3}

\* A response text is a sequence of tokens: the characters '[' and ']', a
\* line break "nl", other text "x", and whole JSON objects "{".
Char(c) == [ch |-> c]

\* A JSON object of the response: the keys it has, and the two values the
\* pipeline reads (start_at is kept as an order-preserving number).
Obj(id, start, keys) ==
  [ch |-> "{", task_id |-> id, start_at |-> start, keys |-> keys]

\* pydantic's validation of TaskContent(**task_dict); ** on a value that is
\* not a dict (here: a nested list) raises TypeError
ValidTask(o) ==
  o.ch = "{" /\ RequiredFields \subseteq o.keys /\ IsUUID(o.task_id)

\* the validated TaskContent object; complete defaults to False
TaskContent(o) ==
  [task_id |-> o.task_id, start_at |-> o.start_at,
   complete |-> IF "complete" \in o.keys THEN TRUE ELSE FALSE]

\* Plan.model_dump(mode='json')
PlanDict(goal, tasks) ==
  [user_id |-> "u", goal_id |-> goal, goal_content |-> "gc",
   tasks_content |-> tasks]

(* ----------------------- llm_service.py ------------------------------- *)
RECURSIVE AllBlockTexts(_)
AllBlockTexts(content) ==
  IF content = <<>> THEN <<>>
  ELSE <<Head(content).text>> \o AllBlockTexts(Tail(content))

RECURSIVE TextBlocks(_)
\* the text of the blocks of type "text", in order
TextBlocks(content) ==
  IF content = <<>> THEN <<>>
  ELSE IF Head(content).type = "text"
       THEN <<Head(content).text>> \o TextBlocks(Tail(content))
       ELSE TextBlocks(Tail(content))

RECURSIVE JoinNL(_)
\* "\n".join(text_content); a text is a sequence of tokens, "nl" the line break
JoinNL(texts) ==
  IF texts = <<>> THEN <<>>
  ELSE IF Len(texts) = 1 THEN texts[1]
  ELSE texts[1] \o <<Char("nl")>> \o JoinNL(Tail(texts))

\* str(e) of an exception: the text, and the detail the text carries
Msg(text, detail) == [text |-> text, detail |-> detail]

\* MiniMaxClient.generate_completion: the reply of the remote call is either
\* an API error or a message with content blocks
GenerateCompletion(reply) ==
  IF reply.kind = "api_error"
  THEN [ok |-> FALSE, msg |-> Msg("MiniMax API error: ", [type |-> "APIError"])]
  ELSE LET result == JoinNL(TextBlocks(reply.content))
       IN IF result = <<>>
          THEN [ok |-> FALSE,
                msg |-> Msg("Failed to generate completion: ",
                           [type |-> "ValueError", text |-> "Empty response from LLM"])]
          ELSE [ok |-> TRUE, text |-> result]

(* ----------------------- plan_service.py ------------------------------ *)
RECURSIVE StripLeft(_)
StripLeft(t) == IF t # <<>> /\ Head(t).ch = "nl" THEN StripLeft(Tail(t)) ELSE t

RECURSIVE StripRight(_)
StripRight(t) ==
  IF t # <<>> /\ t[Len(t)].ch = "nl" THEN StripRight(SubSeq(t, 1, Len(t) - 1)) ELSE t

\* str.strip()
Strip(t) == StripRight(StripLeft(t))

IsChar(tok, c) == tok.ch = c

\* str.find('['): 0-based index of the first '[', -1 when there is none
Find(t) ==
  LET hits == {i \in 1..Len(t) : IsChar(t[i], "[")}
  IN IF hits = {} THEN -1
     ELSE (CHOOSE i \in hits : \A k \in hits : i <= k) - 1

\* str.rfind(']'): 0-based index of the last ']', -1 when there is none
RFind(t) ==
  LET hits == {i \in 1..Len(t) : IsChar(t[i], "]")}
  IN IF hits = {} THEN -1
     ELSE (CHOOSE i \in hits : \A k \in hits : i >= k) - 1

\* response_text[start_idx:end_idx]
Slice(t, from, to) == SubSeq(t, from + 1, to)

IsObject(tok) == tok.ch = "{"

\* the nesting depth after the first i tokens of s
Depth(s, i) ==
  Cardinality({k \in 1..i : IsChar(s[k], "[")}) - Cardinality({k \in 1..i : IsChar(s[k], "]")})

\* json.loads(json_str) returns: json_str is one array, closed by its last
\* token, of objects and nested arrays; line breaks are white space, any
\* other text is a syntax error, and so is anything after the array's end
JsonValid(s) ==
  /\ Len(s) >= 2
  /\ IsChar(s[1], "[")
  /\ IsChar(s[Len(s)], "]")
  /\ \A i \in 1..Len(s) : ~IsChar(s[i], "x")
  /\ \A i \in 1..(Len(s) - 1) : Depth(s, i) >= 1
  /\ Depth(s, Len(s)) = 0

RECURSIVE ElementsFrom(_, _)
\* the elements of the outer array from token i on: an object, or the '[' of
\* a nested array standing for that list
ElementsFrom(s, i) ==
  IF i >= Len(s) THEN <<>>
  ELSE IF Depth(s, i - 1) = 1 /\ (IsObject(s[i]) \/ IsChar(s[i], "["))
       THEN <<s[i]>> \o ElementsFrom(s, i + 1)
       ELSE ElementsFrom(s, i + 1)

\* tasks_data = json.loads(json_str)
JsonElements(s) == ElementsFrom(s, 2)

\* str(e) of the exception TaskContent(**task_dict) raises: pydantic names the
\* fields in error and quotes the input; ** on a list is a TypeError
ValidationMessage(o) ==
  IF ~IsObject(o) THEN Msg("Error processing plan: ", [type |-> "TypeError"])
  ELSE Msg("Error processing plan: ",
           [type |-> "ValidationError",
            fields |-> (RequiredFields \ o.keys)
                         \cup (IF IsUUID(o.task_id) THEN {} ELSE {"task_id"}),
            input_value |-> o])

RECURSIVE InsertBeforeEqual(_, _)
InsertBeforeEqual(sorted, t) ==
  IF sorted = <<>> THEN <<t>>
  ELSE IF Head(sorted).start_at < t.start_at
       THEN <<Head(sorted)>> \o InsertBeforeEqual(Tail(sorted), t)
       ELSE <<t>> \o sorted

RECURSIVE InsertSorted(_, _)
\* t goes after every element whose key is not greater than its own
InsertSorted(sorted, t) ==
  IF sorted = <<>> THEN <<t>>
  ELSE IF Head(sorted).start_at <= t.start_at
       THEN <<Head(sorted)>> \o InsertSorted(Tail(sorted), t)
       ELSE <<t>> \o sorted

SortNothing(tasks) == tasks

RECURSIVE SortByStart(_)
\* list.sort(key=lambda t: t.start_at): stable, ascending
SortByStart(tasks) ==
  IF tasks = <<>> THEN <<>>
  ELSE InsertSorted(SortByStart(SubSeq(tasks, 1, Len(tasks) - 1)), tasks[Len(tasks)])

JsonStrBothMissing(text) ==
  LET response_text == Strip(text)
      start_idx == Find(response_text)
      end_idx == RFind(response_text) + 1
  IN IF start_idx = -1 /\ end_idx = 0
     THEN [ok |-> FALSE]
     ELSE [ok |-> TRUE, json_str |-> Slice(response_text, start_idx, end_idx)]
\* lines 41-51: the text handed to json.loads, when the boundaries are found
JsonStr(text) ==
  LET response_text == Strip(text)
      start_idx == Find(response_text)
      end_idx == RFind(response_text) + 1
  IN IF start_idx = -1 \/ end_idx = 0
     THEN [ok |-> FALSE]
     ELSE [ok |-> TRUE, json_str |-> Slice(response_text, start_idx, end_idx)]

\* the for loop stops at the first element TaskContent rejects
FirstInvalid(elems) ==
  CHOOSE i \in 1..Len(elems) :
    ~ValidTask(elems[i]) /\ \A k \in 1..(i - 1) : ValidTask(elems[k])

TasksWithValidPrefix(tasks, elems) ==
  tasks \o [i \in 1..(FirstInvalid(elems) - 1) |-> TaskContent(elems[i])]
\* plan.tasks_content when the for loop raises: the validated tasks are
\* collected in the local task_objects, extend runs after the loop
TasksAfterFailure(tasks, elems) == tasks

\* plan(plan): the tasks of the updated plan, or the exception's message and
\* the tasks the plan object is left with
PlanService(tasks, reply) ==
  LET completion == GenerateCompletion(reply)
  IN IF ~completion.ok THEN [ok |-> FALSE, msg |-> completion.msg, tasks |-> tasks]
     ELSE
       LET extracted == JsonStr(completion.text)
       IN IF ~extracted.ok
          THEN [ok |-> FALSE,
                msg |-> Msg("Error processing plan: ",
                           [type |-> "ValueError", text |-> "No JSON array found in LLM response"]),
                tasks |-> tasks]
          ELSE IF ~JsonValid(extracted.json_str)
          THEN [ok |-> FALSE,
                msg |-> Msg("Failed to parse LLM response as JSON: ", [type |-> "JSONDecodeError"]),
                tasks |-> tasks]
          ELSE
            LET elems == JsonElements(extracted.json_str)
            IN IF \E i \in 1..Len(elems) : ~ValidTask(elems[i])
               THEN [ok |-> FALSE, msg |-> ValidationMessage(elems[FirstInvalid(elems)]),
                     tasks |-> TasksAfterFailure(tasks, elems)]
               ELSE
                 LET task_objects == [i \in 1..Len(elems) |-> TaskContent(elems[i])]
                 IN [ok |-> TRUE, tasks |-> SortByStart(tasks \o task_objects)]

(* ------------------------ planner.py: data ---------------------------- *)
\* a Python dict: a function whose domain is the set of its keys
EmptyDict == [k \in {} |-> 0]
DictSet(d, k, v) == [x \in (DOMAIN d) \cup {k} |-> IF x = k THEN v ELSE d[x]]
DictDel(d, k) == [x \in (DOMAIN d) \ {k} |-> d[x]]

InList(x, list) == \E i \in 1..Len(list) : list[i] = x
\* list.remove(x): the first occurrence
ListRemove(list, x) ==
  LET i == CHOOSE k \in 1..Len(list) : list[k] = x /\ \A m \in 1..(k - 1) : list[m] # x
  IN SubSeq(list, 1, i - 1) \o SubSeq(list, i + 1, Len(list))

\* the messages handed to _broadcast_to_sse
StatusStarting ==
  [event |-> "status", data |-> [message |-> [text |-> "Starting plan generation with AI...", n |-> 0]]]
StatusGenerated(n) ==
  [event |-> "status", data |-> [message |-> [text |-> "Generated N tasks", n |-> n]]]
Completed(plan_dict) == [event |-> "completed", data |-> plan_dict]
Error(msg) == [event |-> "error", data |-> [error |-> msg]]

\* event in ["completed", "error"]
IsTerminal(event) == event \in {"completed", "error"}

\* asyncio.Queue(): maxsize
QueueMaxSize == 0

HasRoomBounded(q, n) == Len(q) + n <= 1
\* queue.put returns without suspending while the queue is not full; a queue
\* of maxsize 0 is never full
HasRoom(q, n) == QueueMaxSize <= 0 \/ Len(q) + n <= QueueMaxSize

(* ---------------------------- the state ------------------------------- *)
VARIABLES
  sse_queues,    \* dict: goal_id -> list of the queues (one per connection)
  task_results,  \* dict: goal_id -> the retained terminal result
  job,           \* the background tasks created so far, in submission order
  sub,           \* the stream connections
  queue,         \* the asyncio.Queue of each connection
  log            \* per goal_id, every message handed to _broadcast_to_sse

vars == <<sse_queues, task_results, job, sub, queue, log>>

\* the plans a client submits: "tasks_content: [] (empty list - LLM will
\* generate tasks)"
InitialTasks == {<<>>}

\* the replies of the remote completion call
ReplyApiError == [kind |-> "api_error"]
ReplyGood ==
  [kind |-> "message",
   content |-> <<[type |-> "thinking", text |-> <<Char("x")>>],
                 [type |-> "text",
                  text |-> <<Char("x"), Char("["), Obj(1, 2, RequiredFields), Obj(2, 1, RequiredFields),
                             Char("]")>>]>>]
Replies == {ReplyApiError, ReplyGood}

\* one run of plan(): its locals llm_response and json_str, and what it
\* returns or raises
PlanCall(tasks, reply) ==
  LET completion == GenerateCompletion(reply)
  IN [llm_response |-> completion,
      json_str |-> IF completion.ok THEN JsonStr(completion.text) ELSE [ok |-> FALSE],
      result |-> PlanService(tasks, reply)]

\* updated_plan = await generate_plan_tasks(plan), for every plan a client
\* submits and every reply of the remote call
PlanResults ==
  [tasks \in InitialTasks |-> [reply \in Replies |-> PlanCall(tasks, reply)]]

PlanOutcome(tasks, reply) ==
  IF tasks \in InitialTasks /\ reply \in Replies
  THEN PlanResults[tasks][reply]
  ELSE PlanCall(tasks, reply)

\* the reply field of a job whose remote call has not returned
NoReply == [kind |-> "none"]
NoLocals == [llm_response |-> [ok |-> FALSE], json_str |-> [ok |-> FALSE]]

\* a connection: where its handler or generator stands, what it was sent, and
\* regAt, the number of messages broadcast for its goal before its queue
\* joined the goal's list (-1: the queue never joined a list)
NewSub ==
  [pc |-> "idle", goal |-> 0, delivered |-> <<>>, regAt |-> -1, keepalives |-> 0]

Init ==
  /\ sse_queues = EmptyDict
  /\ task_results = EmptyDict
  /\ job = <<>>
  /\ sub = [s \in Subs |-> NewSub]
  /\ queue = [s \in Subs |-> <<>>]
  /\ log = [g \in Goals |-> <<>>]

JobsOf(g) == {j \in 1..Len(job) : job[j].goal = g}

(* ----------------------- _broadcast_to_sse ---------------------------- *)
BroadcastFirst(qs, g, message) ==
  IF g \notin DOMAIN sse_queues THEN qs
  ELSE [s \in Subs |->
          IF InList(s, sse_queues[g]) THEN <<message>> \o qs[s] ELSE qs[s]]
\* puts the message at the end of every queue of the goal's list; does
\* nothing when the goal has no list
Broadcast(qs, g, message) ==
  IF g \notin DOMAIN sse_queues THEN qs
  ELSE [s \in Subs |->
          IF InList(s, sse_queues[g]) THEN Append(qs[s], message) ELSE qs[s]]

RECURSIVE BroadcastAll(_, _, _)
BroadcastAll(qs, g, messages) ==
  IF messages = <<>> THEN qs
  ELSE BroadcastAll(Broadcast(qs, g, Head(messages)), g, Tail(messages))

\* no put of the broadcasts would suspend
CanBroadcast(g, n) ==
  g \in DOMAIN sse_queues =>
    \A s \in Subs : InList(s, sse_queues[g]) => HasRoom(queue[s], n)

(* -------------------------- generate_plan ----------------------------- *)
GeneratePlanNoChannel(g, tasks) ==
  /\ Len(job) < MaxJobs
  /\ job = <<>> => g = 1
  /\ job' = Append(job, [goal |-> g, pc |-> "created", tasks |-> tasks,
                         emitted |-> <<>>, invocations |-> 0, requests |-> 0,
                         reply |-> [kind |-> "none"],
                         locals |-> [llm_response |-> [ok |-> FALSE],
                                     json_str |-> [ok |-> FALSE]]])
  /\ UNCHANGED <<sse_queues, task_results, sub, queue, log>>
GeneratePlan(g, tasks) ==
  /\ Len(job) < MaxJobs
  \* goal identifiers are interchangeable: the first submission uses goal 1
  /\ job = <<>> => g = 1
  /\ sse_queues' = DictSet(sse_queues, g, <<>>)
  /\ job' = Append(job, [goal |-> g, pc |-> "created", tasks |-> tasks,
                         emitted |-> <<>>, invocations |-> 0, requests |-> 0,
                         reply |-> NoReply, locals |-> NoLocals])
  /\ UNCHANGED <<task_results, sub, queue, log>>

(* ------------------- _process_plan_in_background ---------------------- *)
\* from the start of the task to the await of the remote call: plan() calls
\* generate_completion, which sends its request
ProcessStart(j) ==
  LET g == job[j].goal IN
  /\ job[j].pc = "created"
  /\ CanBroadcast(g, 1)
  /\ queue' = Broadcast(queue, g, StatusStarting)
  /\ log' = [log EXCEPT ![g] = Append(@, StatusStarting)]
  /\ job' = [job EXCEPT ![j].pc = "calling", ![j].emitted = Append(@, StatusStarting),
                        ![j].invocations = @ + 1, ![j].requests = @ + 1]
  /\ UNCHANGED <<sse_queues, task_results, sub>>

OutcomeEventsBoth(g, result) ==
  IF result.ok
  THEN <<StatusGenerated(Len(result.tasks)), Completed(PlanDict(g, result.tasks)),
         Error(Msg("late failure", [type |-> "Exception"]))>>
  ELSE <<Error(result.msg)>>
OutcomeEventsNoCount(g, result) ==
  IF result.ok
  THEN <<Completed(PlanDict(g, result.tasks))>>
  ELSE <<Error(result.msg)>>
OutcomeEventsSwallow(g, result) ==
  IF result.ok
  THEN <<StatusGenerated(Len(result.tasks)), Completed(PlanDict(g, result.tasks))>>
  ELSE <<Completed(PlanDict(g, <<>>))>>
\* what the job broadcasts once plan() has returned or raised
OutcomeEvents(g, result) ==
  IF result.ok
  THEN <<StatusGenerated(Len(result.tasks)), Completed(PlanDict(g, result.tasks))>>
  ELSE <<Error(result.msg)>>

RetryOnApiError(reply, requests) == reply.kind = "api_error" /\ requests < 2
\* generate_completion sends its request again after this reply: it has no
\* loop, both except clauses raise
SendsAgain(reply, requests) == FALSE

\* from the return of the remote call to asyncio.sleep(1)
ProcessFinish(j, reply) ==
  LET g == job[j].goal
      call == PlanOutcome(job[j].tasks, reply)
      result == call.result
      events == OutcomeEvents(g, result)
  IN
  /\ job[j].pc = "calling"
  /\ IF SendsAgain(reply, job[j].requests)
     THEN /\ job' = [job EXCEPT ![j].requests = @ + 1]
          /\ UNCHANGED <<queue, log, task_results>>
     ELSE /\ CanBroadcast(g, Len(events))
          /\ queue' = BroadcastAll(queue, g, events)
          /\ log' = [log EXCEPT ![g] = @ \o events]
          /\ task_results' = DictSet(task_results, g, events[Len(events)].data)
          /\ job' = [job EXCEPT ![j].pc = "sleeping",
                                ![j].tasks = result.tasks,
                                ![j].emitted = @ \o events,
                                ![j].reply = reply,
                                ![j].locals = [llm_response |-> call.llm_response,
                                               json_str |-> call.json_str]]
  /\ UNCHANGED <<sse_queues, sub>>

ProcessCleanupEvicts(j) ==
  /\ job[j].pc = "sleeping"
  /\ sse_queues' = IF job[j].goal \in DOMAIN sse_queues
                   THEN DictDel(sse_queues, job[j].goal) ELSE sse_queues
  /\ task_results' = IF job[j].goal \in DOMAIN task_results
                     THEN DictDel(task_results, job[j].goal) ELSE task_results
  /\ job' = [job EXCEPT ![j].pc = "done"]
  /\ UNCHANGED <<sub, queue, log>>
\* after asyncio.sleep(1): the finally block
ProcessCleanup(j) ==
  LET g == job[j].goal IN
  /\ job[j].pc = "sleeping"
  /\ sse_queues' = IF g \in DOMAIN sse_queues THEN DictDel(sse_queues, g) ELSE sse_queues
  /\ job' = [job EXCEPT ![j].pc = "done"]
  /\ UNCHANGED <<task_results, sub, queue, log>>

(* ------------------------ stream_plan_updates ------------------------- *)
NeverNotFound(g) == FALSE
\* the handler's check, before the generator is built
NotFound(g) == g \notin DOMAIN sse_queues /\ g \notin DOMAIN task_results

StreamPlanUpdates(s, g) ==
  /\ sub[s].pc = "idle"
  /\ IF s = 1 THEN TRUE ELSE sub[s - 1].pc # "idle"
  /\ sub' = [sub EXCEPT ![s].goal = g,
                        ![s].pc = IF NotFound(g) THEN "notfound" ELSE "accepted"]
  /\ UNCHANGED <<sse_queues, task_results, job, queue, log>>

ReplayAlwaysCompleted(result) == [event |-> "completed", data |-> result]
\* the event the generator yields from a retained result
ReplayEvent(result) ==
  IF "error" \in DOMAIN result
  THEN [event |-> "error", data |-> result]
  ELSE [event |-> "completed", data |-> result]

\* event_generator, from its start to its first suspension
GenStart(s) ==
  LET g == sub[s].goal IN
  /\ sub[s].pc = "accepted"
  /\ IF g \in DOMAIN task_results
     THEN /\ sub' = [sub EXCEPT ![s].pc = "closed",
                                ![s].delivered = <<ReplayEvent(task_results[g])>>]
          /\ UNCHANGED sse_queues
     ELSE /\ sse_queues' = IF g \in DOMAIN sse_queues
                           THEN [sse_queues EXCEPT ![g] = Append(@, s)]
                           ELSE sse_queues
          /\ sub' = [sub EXCEPT ![s].pc = "waiting",
                                ![s].regAt = IF g \in DOMAIN sse_queues
                                             THEN Len(log[g]) ELSE -1]
  /\ UNCHANGED <<task_results, job, queue, log>>

StopsOnCompletedOnly(event) == event = "completed"
\* the generator leaves its loop after this event
EndsStream(event) == IsTerminal(event)

\* queue.get() returns a message, the generator yields it
GenDeliver(s) ==
  /\ sub[s].pc = "waiting"
  /\ queue[s] # <<>>
  /\ queue' = [queue EXCEPT ![s] = Tail(@)]
  /\ sub' = [sub EXCEPT ![s].delivered = Append(@, Head(queue[s])),
                        ![s].pc = IF EndsStream(Head(queue[s]).event)
                                  THEN "terminal" ELSE "waiting"]
  /\ UNCHANGED <<sse_queues, task_results, job, log>>

GenKeepaliveEnds(s) ==
  /\ sub[s].pc = "waiting"
  /\ queue[s] = <<>>
  /\ sub[s].keepalives < MaxKeepalive
  /\ sub' = [sub EXCEPT ![s].keepalives = @ + 1, ![s].pc = "closed"]
  /\ UNCHANGED <<sse_queues, task_results, job, queue, log>>
\* wait_for times out on an empty queue: the generator yields a keepalive
GenKeepalive(s) ==
  /\ sub[s].pc = "waiting"
  /\ queue[s] = <<>>
  /\ sub[s].keepalives < MaxKeepalive
  /\ sub' = [sub EXCEPT ![s].keepalives = @ + 1]
  /\ UNCHANGED <<sse_queues, task_results, job, queue, log>>

UnregisterAll(s) ==
  IF sub[s].goal \in DOMAIN sse_queues
  THEN [sse_queues EXCEPT ![sub[s].goal] = <<>>]
  ELSE sse_queues
\* the finally block: the queue leaves the goal's list
Unregister(s) ==
  LET g == sub[s].goal IN
  IF g \in DOMAIN sse_queues /\ InList(s, sse_queues[g])
  THEN [sse_queues EXCEPT ![g] = ListRemove(@, s)]
  ELSE sse_queues

\* resumed after the yield of a terminal event: break, then finally
GenClose(s) ==
  /\ sub[s].pc = "terminal"
  /\ sse_queues' = Unregister(s)
  /\ sub' = [sub EXCEPT ![s].pc = "closed"]
  \* the generator's local queue goes with it
  /\ queue' = [queue EXCEPT ![s] = <<>>]
  /\ UNCHANGED <<task_results, job, log>>

\* the client goes away while the generator waits: finally runs
Disconnect(s) ==
  /\ sub[s].pc = "waiting"
  /\ sse_queues' = Unregister(s)
  /\ sub' = [sub EXCEPT ![s].pc = "closed"]
  /\ queue' = [queue EXCEPT ![s] = <<>>]
  /\ UNCHANGED <<task_results, job, log>>

Next ==
  \/ \E g \in Goals, tasks \in InitialTasks : GeneratePlan(g, tasks)
  \/ \E j \in 1..Len(job) : ProcessStart(j)
  \/ \E j \in 1..Len(job), reply \in Replies : ProcessFinish(j, reply)
  \/ \E j \in 1..Len(job) : ProcessCleanup(j)
  \/ \E s \in Subs, g \in Goals : StreamPlanUpdates(s, g)
  \/ \E s \in Subs : GenStart(s)
  \/ \E s \in Subs : GenDeliver(s)
  \/ \E s \in Subs : GenKeepalive(s)
  \/ \E s \in Subs : GenClose(s)
  \/ \E s \in Subs : Disconnect(s)

Spec == Init /\ [][Next]_vars

(* ------------------- one job, any reply, any plan --------------------- *)
\* all sequences over S of length at most n
SeqsUpTo(S, n) == UNION {[1..k -> S] : k \in 0..n}

\* the objects a generated array may hold: three tasks (two of them start on
\* the same day), and one without a title
ObjA == Obj(1, 2, RequiredFields)
ObjB == Obj(2, 1, RequiredFields \cup {"complete"})
ObjC == Obj(1, 1, RequiredFields)
ObjNoTitle == Obj(2, 2, RequiredFields \ {"title"})
TextAlphabet == {Char("["), Char("]"), Char("x"), ObjA, ObjB, ObjC, ObjNoTitle}
Texts == SeqsUpTo(TextAlphabet, MaxTextLen)

\* the content blocks of a reply
TextBlock(t) == [type |-> "text", text |-> t]
ThinkingBlock == [type |-> "thinking", text |-> <<Char("x")>>]
Message(content) == [kind |-> "message", content |-> content]
BlockAlphabet ==
  {ThinkingBlock, TextBlock(<<>>), TextBlock(<<Char("x")>>),
   TextBlock(<<Char("["), ObjA>>), TextBlock(<<ObjB, Char("]")>>)}

\* what the remote call may produce
GeneratedReplies ==
  {ReplyApiError}
    \cup {Message(<<TextBlock(t)>>) : t \in Texts}
    \cup {Message(c) : c \in SeqsUpTo(BlockAlphabet, MaxBlocks)}

\* the tasks_content of a submitted plan: TaskContent objects in any order
OldTask(id, start, complete) == [task_id |-> id, start_at |-> start, complete |-> complete]
OldTasks == SeqsUpTo({OldTask(3, 1, FALSE), OldTask(3, 2, TRUE)}, MaxOldTasks)

\* one submission, of any plan; the remote call produces any reply
NextOneJob ==
  \/ \E tasks \in OldTasks : job = <<>> /\ GeneratePlan(1, tasks)
  \/ \E j \in 1..Len(job) : ProcessStart(j)
  \/ \E j \in {k \in 1..Len(job) : job[k].pc = "calling"}, reply \in GeneratedReplies :
        ProcessFinish(j, reply)
  \/ \E j \in 1..Len(job) : ProcessCleanup(j)

SpecOneJob == Init /\ [][NextOneJob]_vars

(* ------------------------- fair scheduling ---------------------------- *)
\* The event loop runs every task that is ready: a created task starts, and
\* a sleep of one second ends.  The remote call is assumed to return or fail.
\* Nothing is assumed about the connections: a client may never read.
JobStep(j) ==
  \/ ProcessStart(j)
  \/ \E reply \in Replies : ProcessFinish(j, reply)
  \/ ProcessCleanup(j)

FairJobs == Spec /\ \A j \in Jobs : WF_vars(j <= Len(job) /\ JobStep(j))

\* the runs in which no connection ever takes a message from its queue:
\* connections are opened, their queues join the lists, clients go away
NextNoRead ==
  \/ \E g \in Goals, tasks \in InitialTasks : GeneratePlan(g, tasks)
  \/ \E j \in 1..Len(job) : ProcessStart(j)
  \/ \E j \in 1..Len(job), reply \in Replies : ProcessFinish(j, reply)
  \/ \E j \in 1..Len(job) : ProcessCleanup(j)
  \/ \E s \in Subs, g \in Goals : StreamPlanUpdates(s, g)
  \/ \E s \in Subs : GenStart(s)
  \/ \E s \in Subs : Disconnect(s)

FairNoRead ==
  Init /\ [][NextNoRead]_vars /\ \A j \in Jobs : WF_vars(j <= Len(job) /\ JobStep(j))

\* The same runs without the assumption on the remote call: the event loop
\* still starts every created task and ends every sleep, but
\* client.messages.create may stay pending for ever; plan() awaits it without
\* asyncio.wait_for or any other limit.
LocalStep(j) == ProcessStart(j) \/ ProcessCleanup(j)

FairSilentRemote ==
  Init /\ [][NextNoRead]_vars /\ \A j \in Jobs : WF_vars(j <= Len(job) /\ LocalStep(j))

\* The runs in which every goal is submitted at most once, the remote call
\* returns or fails, and the server keeps running the generator of every
\* connection (the client reads what is yielded, or goes away).
NextOnce ==
  \/ \E g \in Goals, tasks \in InitialTasks : JobsOf(g) = {} /\ GeneratePlan(g, tasks)
  \/ \E j \in 1..Len(job) : ProcessStart(j)
  \/ \E j \in 1..Len(job), reply \in Replies : ProcessFinish(j, reply)
  \/ \E j \in 1..Len(job) : ProcessCleanup(j)
  \/ \E s \in Subs, g \in Goals : StreamPlanUpdates(s, g)
  \/ \E s \in Subs : GenStart(s)
  \/ \E s \in Subs : GenDeliver(s)
  \/ \E s \in Subs : GenKeepalive(s)
  \/ \E s \in Subs : GenClose(s)
  \/ \E s \in Subs : Disconnect(s)

GenStep(s) == GenStart(s) \/ GenDeliver(s) \/ GenClose(s)

FairOnce ==
  /\ Init /\ [][NextOnce]_vars
  /\ \A j \in Jobs : WF_vars(j <= Len(job) /\ JobStep(j))
  /\ \A s \in Subs : WF_vars(GenStep(s))

(* ------------------------ helpers of the claims ----------------------- *)
IsPrefix(a, b) == Len(a) <= Len(b) /\ SubSeq(b, 1, Len(a)) = a

TerminalIdx(seq) == {i \in 1..Len(seq) : IsTerminal(seq[i].event)}
FirstTerminalIdx(seq) == CHOOSE i \in TerminalIdx(seq) : \A k \in TerminalIdx(seq) : i <= k
LastTerminalIdx(seq) == CHOOSE i \in TerminalIdx(seq) : \A k \in TerminalIdx(seq) : i >= k

\* the connection's queue is in the list of its goal
Registered(s) ==
  sub[s].goal \in DOMAIN sse_queues /\ InList(s, sse_queues[sub[s].goal])
\* the messages broadcast for the connection's goal since its queue joined
PublishedSince(s) ==
  SubSeq(log[sub[s].goal], sub[s].regAt + 1, Len(log[sub[s].goal]))
\* the connection was served from the retained result
Replayed(s) == sub[s].pc = "closed" /\ sub[s].regAt = -1 /\ sub[s].delivered # <<>>
\* every job of the goal has run its cleanup
Evicted(g) == JobsOf(g) # {} /\ \A j \in JobsOf(g) : job[j].pc = "done"
HasEntry(g) == g \in DOMAIN sse_queues \/ g \in DOMAIN task_results
\* the number of times x occurs in seq
Count(seq, x) == Cardinality({i \in 1..Len(seq) : seq[i] = x})
Range(seq) == {seq[i] : i \in 1..Len(seq)}
\* the elements of seq that start on day d, in the order of seq
StartingOn(seq, d) == SelectSeq(seq, LAMBDA t : t.start_at = d)
\* the positions of character c in text
Positions(text, c) == {i \in 1..Len(text) : text[i] = Char(c)}
Min(S) == CHOOSE x \in S : \A y \in S : x <= y
Max(S) == CHOOSE x \in S : \A y \in S : x >= y
\* the message of the failure 'no array found'
NoArrayFound ==
  Msg("Error processing plan: ",
      [type |-> "ValueError", text |-> "No JSON array found in LLM response"])
\* job j has run plan() on a text generate_completion returned
Parsed(j) == job[j].pc \in {"sleeping", "done"} /\ job[j].locals.llm_response.ok
\* the elements of the array in text t, when json.loads returns one
ArrayOf(t) ==
  LET e == JsonStr(t)
  IN IF e.ok /\ JsonValid(e.json_str) THEN JsonElements(e.json_str) ELSE <<>>
\* the array in text t holds an element TaskContent rejects
Rejected(t) == \E i \in 1..Len(ArrayOf(t)) : ~ValidTask(ArrayOf(t)[i])
\* for every response text with a rejected element: the message plan() fails
\* with, and the position in the array of the first rejected element
SchemaFailures ==
  {[msg |-> PlanService(<<>>, Message(<<TextBlock(t)>>)).msg,
    index |-> FirstInvalid(ArrayOf(t))] : t \in {u \in Texts : Rejected(u)}}
\* the visible-text segments of a reply, in response order
VisibleSegments(reply) == SelectSeq(reply.content, LAMBDA b : b.type = "text")
RECURSIVE JoinedByLineBreak(_)
\* the texts of the segments with a line break between neighbours
JoinedByLineBreak(segs) ==
  IF segs = <<>> THEN <<>>
  ELSE IF Len(segs) = 1 THEN segs[1].text
  ELSE JoinedByLineBreak(SubSeq(segs, 1, Len(segs) - 1))
         \o <<Char("nl")>> \o segs[Len(segs)].text
\* the message of the failure 'empty response'
EmptyResponse ==
  Msg("Failed to generate completion: ",
      [type |-> "ValueError", text |-> "Empty response from LLM"])
\* job j's call of generate_completion got a message and has returned or raised
Answered(j) == job[j].pc \in {"sleeping", "done"} /\ job[j].reply.kind = "message"
\* generate_completion raised the empty-response error in job j
FailedEmpty(j) ==
  /\ ~job[j].locals.llm_response.ok
  /\ job[j].emitted[Len(job[j].emitted)] = Error(EmptyResponse)
\* the step in which job j publishes its completed event
Completes(j) ==
  /\ job[j].pc = "calling"
  /\ job'[j].pc = "sleeping"
  /\ job'[j].emitted[Len(job'[j].emitted)].event = "completed"
\* in that step: the tasks the plan held, followed by the tasks parsed from
\* the response, in parse order
MergedInput(j) ==
  LET elems == JsonElements(job'[j].locals.json_str.json_str)
  IN job[j].tasks \o [i \in 1..Len(elems) |-> TaskContent(elems[i])]
\* in that step: the tasks of the plan the completed event carries
CompletedTasks(j) == job'[j].emitted[Len(job'[j].emitted)].data.tasks_content
\* the client of the connection went away before a terminal event was sent
Disconnected(s) ==
  /\ sub[s].pc = "closed"
  /\ ~Replayed(s)
  /\ \A i \in 1..Len(sub[s].delivered) : ~IsTerminal(sub[s].delivered[i].event)

(* ------------------------------ claims -------------------------------- *)
\* C1: every job hands _broadcast_to_sse exactly one terminal event (completed
\* or error) by the time it sleeps, none before the remote call returned, and
\* every other event it hands over is a status event that precedes it.
C1_ExactlyOneTerminal ==
  \A j \in 1..Len(job) :
    LET e == job[j].emitted
        T == TerminalIdx(e)
    IN /\ Cardinality(T) <= 1
       /\ T # {} => T = {Len(e)}
       /\ \A i \in 1..Len(e) : i \notin T => e[i].event = "status"
       /\ job[j].pc \in {"sleeping", "done"} => Cardinality(T) = 1
       /\ job[j].pc \in {"created", "calling"} => T = {}

\* C1 witness: one job ended with completed after two status events, another
\* with error after one
C1_Witness ==
  \E j, k \in 1..Len(job) :
    /\ job[j].pc = "done" /\ Len(job[j].emitted) = 3
    /\ job[j].emitted[3].event = "completed"
    /\ job[k].pc = "done" /\ Len(job[k].emitted) = 2
    /\ job[k].emitted[2].event = "error"

\* C2: what a connection whose queue joined a list has been sent is a prefix
\* of the messages broadcast for its goal after the queue joined, and while
\* the queue is in the goal's list, what it was sent followed by what waits
\* in its queue is exactly that sequence: nothing older, no gap, no
\* duplicate, no reordering.
C2_OrderedSinceRegistration ==
  \A s \in Subs :
    sub[s].regAt >= 0 =>
      /\ IsPrefix(sub[s].delivered \o queue[s], PublishedSince(s))
      /\ Registered(s) => sub[s].delivered \o queue[s] = PublishedSince(s)

\* C2 witness: a connection that joined after the first status event was
\* sent the later status event and the terminal event
C2_Witness ==
  \E s \in Subs :
    /\ sub[s].regAt >= 1
    /\ Len(sub[s].delivered) = 2
    /\ sub[s].delivered[1].event = "status"
    /\ sub[s].delivered[2].event = "completed"

\* C3: a terminal event is the last event a connection is sent: no event
\* follows it, and the generator is no longer waiting on its queue.
C3_TerminalIsLast ==
  \A s \in Subs :
    LET d == sub[s].delivered IN
    /\ \A i \in 1..(Len(d) - 1) : ~IsTerminal(d[i].event)
    /\ (d # <<>> /\ IsTerminal(d[Len(d)].event)) => sub[s].pc \in {"terminal", "closed"}

\* C3 witness: a connection was sent a terminal event while later events of
\* the same goal wait in its queue
C3_Witness ==
  \E s \in Subs :
    /\ sub[s].pc = "terminal"
    /\ queue[s] # <<>>
    /\ sub[s].delivered[Len(sub[s].delivered)].event = "error"

\* C4: two connections whose queues joined the goal's list before the terminal
\* event and that did not disconnect both get the goal's terminal event, the
\* same one, once it is published.
C4_FanOut ==
  \A s1, s2 \in Subs :
    LET g == sub[s1].goal
        Stays(s) == \/ sub[s].pc \in {"waiting", "terminal"}
                    \/ /\ sub[s].pc = "closed"
                       /\ sub[s].delivered # <<>>
                       /\ IsTerminal(sub[s].delivered[Len(sub[s].delivered)].event)
        Got(s) == sub[s].delivered \o queue[s]
    IN (/\ s1 # s2
        /\ sub[s2].goal = g
        /\ sub[s1].regAt >= 0 /\ sub[s2].regAt >= 0
        /\ Stays(s1) /\ Stays(s2)
        /\ TerminalIdx(log[g]) # {})
       => /\ TerminalIdx(Got(s1)) # {}
          /\ TerminalIdx(Got(s2)) # {}
          /\ Got(s1)[FirstTerminalIdx(Got(s1))] = Got(s2)[FirstTerminalIdx(Got(s2))]

\* C5: a connection whose generator starts when the goal has a retained result
\* is sent exactly one event, of the kind and with the payload of the last
\* terminal event published for the goal, and its queue joins no list.
C5_LateReplay ==
  /\ [][\A s \in Subs :
          (/\ sub[s].pc = "accepted"
           /\ sub'[s].pc # "accepted"
           /\ TerminalIdx(log[sub[s].goal]) # {})
          => /\ sub'[s].pc = "closed"
             /\ sub'[s].delivered =
                  <<log[sub[s].goal][LastTerminalIdx(log[sub[s].goal])]>>
             /\ sub'[s].regAt = -1
             /\ sse_queues' = sse_queues
             /\ queue' = queue]_vars
  /\ [](\A s \in Subs : Replayed(s) => Len(sub[s].delivered) = 1 /\ ~Registered(s))

\* C5 witness: a connection was served an error from the retained result
\* while the job was still in its grace period
C5_Witness ==
  \E s \in Subs :
    /\ Replayed(s)
    /\ sub[s].delivered[1].event = "error"
    /\ \E j \in JobsOf(sub[s].goal) : job[j].pc = "sleeping"

\* C6: a stream request made when every job of the goal has passed its grace
\* period and run its cleanup is answered not-found.
C6_NotFoundAfterGrace ==
  [][\A s \in Subs :
       (/\ sub[s].pc = "idle"
        /\ sub'[s].pc # "idle"
        /\ Evicted(sub'[s].goal))
       => sub'[s].pc = "notfound"]_vars

\* C7: once every job of a goal has passed its grace period and run its
\* cleanup, neither sse_queues nor task_results holds the goal.
C7_FootprintEmpty ==
  \A g \in Goals :
    Evicted(g) => g \notin DOMAIN sse_queues /\ g \notin DOMAIN task_results

\* C8: a submission for a goal that has a list in sse_queues or a retained
\* result starts no job and leaves the goal's list as it is.
C8_Conflict ==
  [][\A g \in Goals :
       HasEntry(g) => ~(Len(job') > Len(job) /\ job'[Len(job')].goal = g)]_vars

\* C9: a stream request for a goal that was never submitted is answered
\* not-found, creates no queue entry and leaves the registry unchanged.
C9_UnknownNotFound ==
  [][\A s \in Subs :
       (/\ sub[s].pc = "idle"
        /\ sub'[s].pc # "idle"
        /\ JobsOf(sub'[s].goal) = {})
       => /\ sub'[s].pc = "notfound"
          /\ sub'[s].delivered = <<>>
          /\ sub'[s].regAt = -1
          /\ UNCHANGED <<sse_queues, task_results, queue>>]_vars

\* C9 witness: a request for a goal no job was ever submitted for ended
\* not-found
C9_Witness ==
  \E s \in Subs : sub[s].pc = "notfound" /\ JobsOf(sub[s].goal) = {}

\* C10: in the runs where no connection ever reads its queue (FairNoRead),
\* every created job publishes its terminal event and its goal then has a
\* retained result.
C10_PublishNeverWaits ==
  \A j \in Jobs :
    (j <= Len(job)) ~>
      (/\ j <= Len(job)
       /\ job[j].pc \in {"sleeping", "done"}
       /\ TerminalIdx(job[j].emitted) # {}
       /\ job[j].goal \in DOMAIN task_results)

\* C10 witness: a job sleeps after its terminal event while a registered
\* connection has read none of the three events in its queue
C10_Witness ==
  \E j \in 1..Len(job), s \in Subs :
    /\ job[j].pc = "sleeping"
    /\ sub[s].goal = job[j].goal
    /\ Registered(s)
    /\ sub[s].delivered = <<>>
    /\ Len(queue[s]) = 3

\* C11: the step in which a client goes away takes its queue out of the goal's
\* list and changes nothing else: the jobs, what was published, the retained
\* results, the other connections, their queues and their membership of the
\* lists stay as they are; and a connection still in the list of a goal
\* another client left has been sent or holds in its queue every message
\* published since it joined, in order, the terminal event included.
C11_DisconnectIsolated ==
  /\ [][\A s \in Subs :
          (sub[s].pc = "waiting" /\ sub'[s].pc = "closed")
          => /\ ~(sub[s].goal \in DOMAIN sse_queues' /\ InList(s, sse_queues'[sub[s].goal]))
             /\ UNCHANGED <<job, log, task_results>>
             /\ \A t \in Subs \ {s} :
                  /\ sub'[t] = sub[t]
                  /\ queue'[t] = queue[t]
                  /\ Registered(t) =>
                       /\ sub[t].goal \in DOMAIN sse_queues'
                       /\ InList(t, sse_queues'[sub[t].goal])]_vars
  /\ [](\A s, t \in Subs :
          (/\ s # t
           /\ Disconnected(s)
           /\ sub[t].goal = sub[s].goal
           /\ Registered(t))
          => /\ sub[t].delivered \o queue[t] = PublishedSince(t)
             /\ \A i \in TerminalIdx(PublishedSince(t)) :
                  (sub[t].delivered \o queue[t])[i] = PublishedSince(t)[i])

\* C11 witness: one client left after the first status event; the other
\* connection of the goal, registered before that event, was sent all three
\* events of the job
C11_Witness ==
  \E s, t \in Subs :
    /\ s # t
    /\ sub[t].goal = sub[s].goal
    /\ Disconnected(s)
    /\ sub[s].regAt = 0
    /\ Len(sub[s].delivered) = 1
    /\ sub[t].regAt = 0
    /\ sub[t].pc = "terminal"
    /\ Len(sub[t].delivered) = 3
    /\ sub[t].delivered[3].event = "completed"

\* C12: a job whose plan() raised (the completion client failed, no array was
\* found, the JSON was invalid or a task was rejected) has handed over, after
\* the first status event, one error event carrying the exception's message
\* and no completed event; the step that publishes it stores that error as
\* the goal's retained result.
C12_FailureBecomesError ==
  /\ [](\A j \in 1..Len(job) :
          (job[j].pc \in {"sleeping", "done"} /\ ~PlanService(<<>>, job[j].reply).ok)
          => /\ job[j].emitted = <<StatusStarting, Error(PlanService(<<>>, job[j].reply).msg)>>
             /\ \A i \in 1..Len(job[j].emitted) : job[j].emitted[i].event # "completed")
  /\ [][\A j \in 1..Len(job) :
          (/\ job[j].pc = "calling"
           /\ job'[j].pc = "sleeping"
           /\ ~PlanService(<<>>, job'[j].reply).ok)
          => /\ task_results'[job[j].goal] = [error |-> PlanService(<<>>, job'[j].reply).msg]
             /\ log'[job[j].goal] =
                  Append(log[job[j].goal], Error(PlanService(<<>>, job'[j].reply).msg))]_vars

\* C12 witness: a job whose reply held a task without a title has finished
\* with the validation error as its retained result
C12_Witness ==
  \E j \in 1..Len(job) :
    /\ job[j].pc = "done"
    /\ job[j].locals.json_str.ok
    /\ "error" \in DOMAIN task_results[job[j].goal]
    /\ task_results[job[j].goal].error.detail.type = "ValidationError"
    /\ job[j].emitted[Len(job[j].emitted)].event = "error"

\* C13: a job calls generate_completion at most once and generate_completion
\* sends at most one request; whatever the remote call answers, the job's
\* next step is its terminal step, with no further call or request, and after
\* a failed call the event of that step is the error event.
C13_NoRetry ==
  /\ [](\A j \in 1..Len(job) :
          /\ job[j].invocations <= 1
          /\ job[j].requests <= job[j].invocations
          /\ job[j].pc # "created" => job[j].invocations = 1 /\ job[j].requests = 1)
  /\ [][\A j \in 1..Len(job) :
          (job[j].pc = "calling" /\ job'[j] # job[j])
          => /\ job'[j].pc = "sleeping"
             /\ job'[j].invocations = job[j].invocations
             /\ job'[j].requests = job[j].requests
             /\ job'[j].reply.kind = "api_error" =>
                  /\ Len(job'[j].emitted) = Len(job[j].emitted) + 1
                  /\ job'[j].emitted[Len(job'[j].emitted)].event = "error"]_vars

\* C13 witness: a job whose remote call failed sleeps after its error event,
\* having sent one request
C13_Witness ==
  \E j \in 1..Len(job) :
    /\ job[j].pc = "sleeping"
    /\ job[j].reply.kind = "api_error"
    /\ job[j].requests = 1
    /\ job[j].invocations = 1
    /\ job[j].emitted[Len(job[j].emitted)].event = "error"

\* C14: a keepalive is given only to a connection waiting on an empty queue;
\* the step leaves the connection waiting, what it was sent, every queue and
\* every list as they were; and a connection that was given a keepalive and
\* is in its goal's list has been sent or holds in its queue every message
\* published since it joined, in order.
C14_KeepaliveHarmless ==
  /\ [][\A s \in Subs :
          sub'[s].keepalives # sub[s].keepalives
          => /\ sub[s].pc = "waiting"
             /\ queue[s] = <<>>
             /\ sub'[s].pc = "waiting"
             /\ sub'[s].delivered = sub[s].delivered
             /\ sub'[s].regAt = sub[s].regAt
             /\ UNCHANGED <<queue, sse_queues, task_results, job, log>>]_vars
  /\ [](\A s \in Subs :
          (sub[s].keepalives > 0 /\ Registered(s))
          => sub[s].delivered \o queue[s] = PublishedSince(s))

\* C14 witness: a connection that joined before the first event and was given
\* a keepalive has been sent the three events of the job, the terminal event
\* last
C14_Witness ==
  \E s \in Subs :
    /\ sub[s].keepalives = 1
    /\ sub[s].regAt = 0
    /\ sub[s].pc = "terminal"
    /\ Len(sub[s].delivered) = 3
    /\ sub[s].delivered[3].event = "completed"

\* C15: the plan carried by a completed event has as many tasks as the plan
\* held plus the response's array holds, is a rearrangement of those tasks
\* (each occurs as often as before), and is non-decreasing by start_at.
C15_MergeSortedPermutation ==
  [][\A j \in 1..Len(job) :
       Completes(j)
       => LET in == MergedInput(j)
              out == CompletedTasks(j)
          IN /\ Len(out) = Len(job[j].tasks)
                             + Len(JsonElements(job'[j].locals.json_str.json_str))
             /\ \A x \in Range(in) \cup Range(out) : Count(out, x) = Count(in, x)
             /\ \A i \in 1..(Len(out) - 1) : out[i].start_at <= out[i + 1].start_at
             /\ job'[j].tasks = out]_vars

\* C15 witness: a plan of two tasks was completed with the two tasks of the
\* response, which came latest start first
C15_Witness ==
  \E j \in 1..Len(job) :
    /\ job[j].pc = "done"
    /\ job[j].locals.json_str.ok
    /\ job[j].locals.json_str.json_str = <<Char("["), ObjA, ObjB, Char("]")>>
    /\ job[j].emitted[Len(job[j].emitted)].event = "completed"
    /\ Len(job[j].tasks) = 4

\* C16: in the plan carried by a completed event, the tasks that start on the
\* same day stand in the order they had in the sequence of the plan's tasks
\* followed by the parsed tasks.
C16_StableSort ==
  [][\A j \in 1..Len(job) :
       Completes(j)
       => \A d \in {t.start_at : t \in Range(MergedInput(j))} :
            StartingOn(CompletedTasks(j), d) = StartingOn(MergedInput(j), d)]_vars

\* C16 witness: a plan whose later task came first was completed with two
\* parsed tasks; the three tasks of day 1 kept their order, ahead of the task
\* of day 2
C16_Witness ==
  \E j \in 1..Len(job) :
    /\ job[j].pc = "done"
    /\ job[j].locals.json_str.ok
    /\ job[j].locals.json_str.json_str = <<Char("["), ObjC, ObjB, Char("]")>>
    /\ job[j].tasks = <<OldTask(3, 1, FALSE), TaskContent(ObjC), TaskContent(ObjB),
                        OldTask(3, 2, TRUE)>>

\* C17: for a job that got a response text, the terminal event is the error
\* 'no array found' exactly when the text has no '[' or has no ']'; otherwise
\* the text handed to json.loads is the part of the response text from its
\* first '[' to its last ']', both included (empty when the last ']' stands
\* before the first '[').
C17_ArrayBoundaries ==
  \A j \in 1..Len(job) :
    Parsed(j) =>
      LET text == job[j].locals.llm_response.text
          opens == Positions(text, "[")
          closes == Positions(text, "]")
          last == job[j].emitted[Len(job[j].emitted)]
      IN /\ (last.event = "error" /\ last.data.error = NoArrayFound)
              <=> (opens = {} \/ closes = {})
         /\ (opens # {} /\ closes # {}) =>
              /\ job[j].locals.json_str.ok
              /\ job[j].locals.json_str.json_str = SubSeq(text, Min(opens), Max(closes))
         /\ (opens = {} \/ closes = {}) => ~job[j].locals.json_str.ok

\* C17 witness: a text whose only ']' stands before its only '[' ended in the
\* JSON error, not in 'no array found'
C17_Witness ==
  \E j \in 1..Len(job) :
    /\ Parsed(j)
    /\ job[j].locals.llm_response.text = <<Char("]"), Char("x"), Char("[")>>
    /\ job[j].locals.json_str = [ok |-> TRUE, json_str |-> <<>>]
    /\ job[j].emitted[Len(job[j].emitted)].data.error.detail.type = "JSONDecodeError"

\* C18: when the array of the response holds an element that TaskContent
\* rejects, the job ends with an error whose message identifies the position
\* of the first such element: no response whose first rejected element stands
\* at another position fails with the same message.
C18_SchemaErrorNamesIndex ==
  \A j \in 1..Len(job) :
    (Parsed(j) /\ Rejected(job[j].locals.llm_response.text))
    => LET last == job[j].emitted[Len(job[j].emitted)]
       IN /\ last.event = "error"
          /\ \A f \in SchemaFailures :
               f.msg = last.data.error
               => f.index = FirstInvalid(ArrayOf(job[j].locals.llm_response.text))

\* C19 as stated: generate_completion returns the visible-text segments
\* joined by line breaks whenever the reply holds at least one visible-text
\* segment, and fails with the empty-response error when it holds none.
C19_ReturnsWhenAnySegment ==
  \A j \in 1..Len(job) :
    Answered(j) =>
      LET segs == VisibleSegments(job[j].reply)
      IN IF segs # <<>>
         THEN job[j].locals.llm_response = [ok |-> TRUE, text |-> JoinedByLineBreak(segs)]
         ELSE FailedEmpty(j)

\* C19 as amended: generate_completion returns the visible-text segments, in
\* response order, joined by line breaks and ignoring every other segment,
\* whenever that joined text is not empty; it fails with the empty-response
\* error when the joined text is empty, that is when the reply holds no
\* visible-text segment or a single, empty one.
C19_ReturnsWhenTextNotEmpty ==
  \A j \in 1..Len(job) :
    Answered(j) =>
      LET segs == VisibleSegments(job[j].reply)
      IN /\ IF JoinedByLineBreak(segs) # <<>>
            THEN job[j].locals.llm_response = [ok |-> TRUE, text |-> JoinedByLineBreak(segs)]
            ELSE FailedEmpty(j)
         /\ JoinedByLineBreak(segs) = <<>>
              <=> (segs = <<>> \/ (Len(segs) = 1 /\ segs[1].text = <<>>))

\* C19 witness: a reply of a thinking segment and two visible-text segments
\* was returned as the two texts with a line break between them
C19_Witness ==
  \E j \in 1..Len(job) :
    /\ Answered(j)
    /\ job[j].reply.content =
         <<ThinkingBlock, TextBlock(<<Char("["), ObjA>>), TextBlock(<<ObjB, Char("]")>>)>>
    /\ job[j].locals.llm_response.ok
    /\ job[j].locals.llm_response.text = <<Char("["), ObjA, Char("nl"), ObjB, Char("]")>>

\* C20: in the runs where the remote call may stay pending for ever
\* (FairSilentRemote), every submitted job still hands over a terminal event.
C20_TerminalWithoutReply ==
  \A j \in Jobs :
    (j <= Len(job)) ~> (j <= Len(job) /\ TerminalIdx(job[j].emitted) # {})

\* C21: a job whose plan() returned has handed over the starting status, a
\* second status with the count, and the completed event with the plan as
\* updated, in this order and nothing else; a job whose plan() raised has
\* handed over the starting status and the error event; before the remote
\* call returns only the starting status is out. A goal has a retained result
\* only if that result was published as a terminal event for the goal, and
\* the retained result changes only in a step that publishes it.
C21_EventSequence ==
  /\ [](\A j \in 1..Len(job) :
          LET e == job[j].emitted IN
          /\ job[j].pc = "created" => e = <<>>
          /\ job[j].pc = "calling" => e = <<StatusStarting>>
          /\ job[j].pc \in {"sleeping", "done"} =>
               IF PlanService(<<>>, job[j].reply).ok
               THEN /\ Len(e) = 3
                    /\ e[1] = StatusStarting
                    /\ e[2].event = "status"
                    /\ e[2].data.message.text = "Generated N tasks"
                    /\ e[3] = Completed(PlanDict(job[j].goal, job[j].tasks))
               ELSE /\ Len(e) = 2
                    /\ e[1] = StatusStarting
                    /\ e[2] = Error(PlanService(<<>>, job[j].reply).msg))
  /\ [](\A g \in DOMAIN task_results :
          \E i \in TerminalIdx(log[g]) : log[g][i].data = task_results[g])
  /\ [][\A g \in Goals :
          (g \in DOMAIN task_results' /\
             (g \notin DOMAIN task_results \/ task_results'[g] # task_results[g]))
          => /\ Len(log'[g]) > Len(log[g])
             /\ log'[g][Len(log'[g])].data = task_results'[g]
             /\ IsTerminal(log'[g][Len(log'[g])].event)]_vars

\* C21 witness: a job is done after the three events of a successful run,
\* with a plan of three tasks in the completed event
C21_Witness ==
  \E j \in 1..Len(job) :
    /\ job[j].pc = "done"
    /\ Len(job[j].emitted) = 3
    /\ job[j].emitted[3].event = "completed"
    /\ Len(job[j].emitted[3].data.tasks_content) = 3
    /\ task_results[job[j].goal] = job[j].emitted[3].data

\* C22: the count carried by the second status event of a successful run is
\* the number of tasks parsed from the response in that run, whatever the
\* number of tasks the submitted plan held.
C22_CountIsNewTasks ==
  \A j \in 1..Len(job) :
    (/\ job[j].pc \in {"sleeping", "done"}
     /\ job[j].emitted[Len(job[j].emitted)].event = "completed")
    => job[j].emitted[2].data.message.n
         = Len(JsonElements(job[j].locals.json_str.json_str))

\* C23: while a job of a goal has not yet handed over its terminal event, no
\* step removes the goal's list from sse_queues or takes out of it the queue
\* of a connection that is still waiting.
C23_ChannelOutlivesJob ==
  [][\A g \in Goals :
       (/\ g \in DOMAIN sse_queues
        /\ \E j \in JobsOf(g) : job[j].pc \in {"created", "calling"})
       => /\ g \in DOMAIN sse_queues'
          /\ \A s \in Subs :
               (InList(s, sse_queues[g]) /\ sub'[s].pc = "waiting")
               => InList(s, sse_queues'[g])]_vars

\* C24: once task_results holds a result for a goal, no step removes it or
\* replaces it by another result.
C24_ResultWrittenOnce ==
  [][\A g \in DOMAIN task_results :
       g \in DOMAIN task_results' /\ task_results'[g] = task_results[g]]_vars

\* C25: in the runs where every goal is submitted once (FairOnce), a
\* connection that passed the not-found check either is served the retained
\* result or joins the goal's list before the terminal event is published:
\* while it waits, it is in the list of a goal whose terminal event is still
\* to come, or the one terminal event is in its queue; and it ends having
\* been sent exactly one terminal event, unless its client went away.
C25_NoLostTerminal ==
  /\ [](\A s \in Subs :
          sub[s].pc = "waiting" =>
            \/ TerminalIdx(log[sub[s].goal]) = {} /\ Registered(s)
            \/ Cardinality(TerminalIdx(queue[s])) = 1)
  /\ \A s \in Subs :
       (sub[s].pc \in {"accepted", "waiting"})
         ~> (/\ sub[s].pc \in {"terminal", "closed"}
             /\ Disconnected(s) \/ Cardinality(TerminalIdx(sub[s].delivered)) = 1)

\* C25 witness: a connection passed the not-found check and its generator
\* has not started, while the job of its goal is done and the goal's list is
\* gone
C25_Witness ==
  \E s \in Subs :
    /\ sub[s].pc = "accepted"
    /\ sub[s].goal \notin DOMAIN sse_queues
    /\ \E j \in JobsOf(sub[s].goal) : job[j].pc = "done"

\* C26: a goal that was submitted is at all times in sse_queues or in
\* task_results, and a stream request for it is never answered not-found.
C26_SubmittedIsKnown ==
  /\ [](\A g \in Goals : JobsOf(g) # {} => HasEntry(g))
  /\ [][\A s \in Subs :
          (/\ sub[s].pc = "idle"
           /\ sub'[s].pc # "idle"
           /\ JobsOf(sub'[s].goal) # {})
          => sub'[s].pc = "accepted"]_vars

\* C26 witness: a stream request was accepted for a goal whose job has not
\* started, and another for a goal whose only entry is its retained result
C26_Witness ==
  \E s, t \in Subs :
    /\ sub[s].pc = "accepted"
    /\ sub[s].goal \notin DOMAIN task_results
    /\ \E j \in JobsOf(sub[s].goal) : job[j].pc = "created"
    /\ sub[t].pc = "accepted"
    /\ sub[t].goal \notin DOMAIN sse_queues
    /\ sub[t].goal \in DOMAIN task_results

\* C27: the step in which a job publishes an error leaves the tasks of its
\* plan exactly as they were, also when the array's first elements were
\* valid; the tasks change only in a step that publishes the completed
\* event, and then every element of the array was accepted.
C27_AllOrNothing ==
  [][\A j \in 1..Len(job) :
       /\ (/\ job[j].pc = "calling"
           /\ job'[j].pc = "sleeping"
           /\ job'[j].emitted[Len(job'[j].emitted)].event = "error")
          => job'[j].tasks = job[j].tasks
       /\ job'[j].tasks # job[j].tasks
          => /\ Completes(j)
             /\ \A i \in 1..Len(JsonElements(job'[j].locals.json_str.json_str)) :
                  ValidTask(JsonElements(job'[j].locals.json_str.json_str)[i])]_vars

\* C27 witness: an array whose first element is valid and whose second has
\* no title left a plan of two unsorted tasks as it was
C27_Witness ==
  \E j \in 1..Len(job) :
    /\ job[j].pc = "done"
    /\ job[j].locals.json_str.ok
    /\ job[j].locals.json_str.json_str = <<Char("["), ObjA, ObjNoTitle, Char("]")>>
    /\ job[j].emitted[Len(job[j].emitted)].event = "error"
    /\ job[j].tasks = <<OldTask(3, 2, TRUE), OldTask(3, 1, FALSE)>>

====
